---- MODULE Spec2Model ----
(***************************************************************************)
(* The AI playlist generator of src/main.py: the reply of the text         *)
(* generation backend is turned into a playlist plan                       *)
(* (extract_json_from_text, generate_playlist_data) and the plan into a    *)
(* playlist on the music-catalog service (create_spotify_playlist), as     *)
(* driven by main.                                                         *)
(*                                                                         *)
(* A text is a sequence of symbols.  The symbols are the characters of the *)
(* model's alphabet: the structural characters of JSON, the digits "0" and *)
(* "7", the blank, and symbols with long names ("playlist_name", "null",   *)
(* "Sure!") that stand for themselves.  A Python value is a record         *)
(*   [t |-> "None" | "int" | "str" | "list" | "dict", s |-> <<symbols>>,   *)
(*    v |-> <<values>>]: s holds the text of a str and the digits of an    *)
(* int, v the elements of a list and the items of a dict.                  *)
(***************************************************************************)
EXTENDS Integers, Sequences, FiniteSets, TLC

\* ------------------------------------------------------------------ bounds
\* Longest reply text of the exhaustive part of the replies.
MaxLen == 4
\* Most songs in a generated reply.
MaxSongs == 2

\* ------------------------------------------------------ Python values
None == [t |-> "None", s |-> <<>>, v |-> <<>>]
PyInt(digits) == [t |-> "int", s |-> digits, v |-> <<>>]
PyStr(chars) == [t |-> "str", s |-> chars, v |-> <<>>]
PyList(items) == [t |-> "list", s |-> <<>>, v |-> items]
\* One key of a dict with its value.
Item(key, val) == [t |-> "item", s |-> key, v |-> <<val>>]
PyDict(items) == [t |-> "dict", s |-> <<>>, v |-> items]

\* bool(x): None, 0, "", [] and {} are false, everything else is true.
Truthy(x) ==
  CASE x.t = "None" -> FALSE
    [] x.t = "int" -> x.s # <<"0">>
    [] x.t = "str" -> x.s # <<>>
    [] OTHER -> x.v # <<>>

\* The keys of a dict, in insertion order.
Keys(d) == [i \in 1..Len(d.v) |-> d.v[i].s]

HasKey(d, key) == \E i \in 1..Len(d.v) : d.v[i].s = key

\* d[key] for a key of d.
GetItem(d, key) == d.v[CHOOSE i \in 1..Len(d.v) : d.v[i].s = key].v[1]

\* d[key] = val on the items of a dict: a key seen again keeps its place and
\* takes the new value.
SetItem(items, key, val) ==
  IF \E i \in 1..Len(items) : items[i].s = key
  THEN [i \in 1..Len(items) |->
          IF items[i].s = key THEN Item(key, val) ELSE items[i]]
  ELSE Append(items, Item(key, val))

\* ------------------------------------------------------ json.loads
Digits == {"0", "7"}
Fail == [ok |-> FALSE, val |-> None, pos |-> 0]
Got(val, pos) == [ok |-> TRUE, val |-> val, pos |-> pos]

RECURSIVE SkipWS(_, _)
\* The index of the first symbol at or after i that is not a blank.
SkipWS(s, i) == IF i <= Len(s) /\ s[i] = " " THEN SkipWS(s, i + 1) ELSE i

RECURSIVE EndOfDigits(_, _)
\* The index after the run of digits that starts at i.
EndOfDigits(s, i) ==
  IF i <= Len(s) /\ s[i] \in Digits THEN EndOfDigits(s, i + 1) ELSE i

\* A string literal whose opening quote is at i - 1: the text up to the
\* next quote.
ScanString(s, i) ==
  IF \E j \in i..Len(s) : s[j] = "\""
  THEN LET j == CHOOSE j \in i..Len(s) :
                  s[j] = "\"" /\ \A m \in i..(j - 1) : s[m] # "\""
       IN Got(PyStr(SubSeq(s, i, j - 1)), j + 1)
  ELSE Fail

RECURSIVE ScanOnce(_, _), JSONObject(_, _), Members(_, _, _),
          JSONArray(_, _), Elements(_, _, _)

\* One JSON value that starts at i.
ScanOnce(s, i) ==
  IF i > Len(s) THEN Fail
  ELSE CASE s[i] = "\"" -> ScanString(s, i + 1)
         [] s[i] = "{" -> JSONObject(s, i + 1)
         [] s[i] = "[" -> JSONArray(s, i + 1)
         [] s[i] = "null" -> Got(None, i + 1)
         [] s[i] = "0" -> Got(PyInt(<<"0">>), i + 1)
         [] s[i] = "7" ->
              LET e == EndOfDigits(s, i) IN Got(PyInt(SubSeq(s, i, e - 1)), e)
         [] OTHER -> Fail

\* An object whose "{" is at i - 1.
JSONObject(s, i) ==
  LET j == SkipWS(s, i) IN
  IF j > Len(s) THEN Fail
  ELSE IF s[j] = "}" THEN Got(PyDict(<<>>), j + 1)
  ELSE IF s[j] # "\"" THEN Fail
  ELSE Members(s, j + 1, <<>>)

\* The members of an object from the key whose opening quote is at i - 1.
Members(s, i, pairs) ==
  LET key == ScanString(s, i) IN
  IF ~key.ok THEN Fail
  ELSE LET c == SkipWS(s, key.pos) IN
  IF c > Len(s) \/ s[IF c > Len(s) THEN 1 ELSE c] # ":" THEN Fail
  ELSE LET val == ScanOnce(s, SkipWS(s, c + 1)) IN
  IF ~val.ok THEN Fail
  ELSE LET e == SkipWS(s, val.pos)
           now == SetItem(pairs, key.val.s, val.val) IN
  IF e > Len(s) THEN Fail
  ELSE IF s[e] = "}" THEN Got(PyDict(now), e + 1)
  ELSE IF s[e] # "," THEN Fail
  ELSE LET q == SkipWS(s, e + 1) IN
  IF q > Len(s) THEN Fail
  ELSE IF s[q] # "\"" THEN Fail
  ELSE Members(s, q + 1, now)

\* An array whose "[" is at i - 1.
JSONArray(s, i) ==
  LET j == SkipWS(s, i) IN
  IF j > Len(s) THEN Fail
  ELSE IF s[j] = "]" THEN Got(PyList(<<>>), j + 1)
  ELSE Elements(s, j, <<>>)

\* The elements of an array from the value that starts at i.
Elements(s, i, items) ==
  LET val == ScanOnce(s, i) IN
  IF ~val.ok THEN Fail
  ELSE LET e == SkipWS(s, val.pos)
           now == Append(items, val.val) IN
  IF e > Len(s) THEN Fail
  ELSE IF s[e] = "]" THEN Got(PyList(now), e + 1)
  ELSE IF s[e] # "," THEN Fail
  ELSE Elements(s, SkipWS(s, e + 1), now)

\* json.loads(text): ok is FALSE where it raises JSONDecodeError.
json_loads(text) ==
  LET r == ScanOnce(text, SkipWS(text, 1)) IN
  IF ~r.ok THEN Fail
  ELSE IF SkipWS(text, r.pos) # Len(text) + 1 THEN Fail
  ELSE r

\* ------------------------------------------------ extract_json_from_text
\* text.find(ch): the 0-based index of the first ch, -1 if there is none.
find(text, ch) ==
  IF \E i \in 1..Len(text) : text[i] = ch
  THEN (CHOOSE i \in 1..Len(text) :
          text[i] = ch /\ \A m \in 1..(i - 1) : text[m] # ch) - 1
  ELSE -1

\* rfind as find: the first ch instead of the last.
rfindFirst(text, ch) == find(text, ch)

\* text.rfind(ch): the 0-based index of the last ch, -1 if there is none.
rfind(text, ch) ==
  IF \E i \in 1..Len(text) : text[i] = ch
  THEN (CHOOSE i \in 1..Len(text) :
          text[i] = ch /\ \A m \in (i + 1)..Len(text) : text[m] # ch) - 1
  ELSE -1

\* text[start:end] for 0 <= start.
Slice(text, start, end) == SubSeq(text, start + 1, end)

extract_json_from_text(text) ==
  LET whole == json_loads(text) IN
  IF whole.ok THEN whole.val
  ELSE LET start == find(text, "{")
           end == rfind(text, "}") + 1 IN
       IF start # -1 /\ end # 0
       THEN LET inner == json_loads(Slice(text, start, end)) IN
            IF inner.ok THEN inner.val ELSE None
       ELSE None

\* ------------------------------------------------ str, repr and join
RECURSIVE JoinTexts(_, _)
\* sep.join(texts) for a sequence of texts.
JoinTexts(sep, texts) ==
  IF texts = <<>> THEN <<>>
  ELSE IF Len(texts) = 1 THEN texts[1]
  ELSE texts[1] \o sep \o JoinTexts(sep, Tail(texts))

RECURSIVE Repr(_)
\* repr(x).
Repr(x) ==
  CASE x.t = "None" -> <<"None">>
    [] x.t = "int" -> x.s
    [] x.t = "str" -> <<"'">> \o x.s \o <<"'">>
    [] x.t = "list" ->
         <<"[">> \o JoinTexts(<<",", " ">>, [i \in 1..Len(x.v) |-> Repr(x.v[i])])
                 \o <<"]">>
    [] OTHER ->
         <<"{">> \o JoinTexts(<<",", " ">>,
                      [i \in 1..Len(x.v) |->
                         <<"'">> \o x.v[i].s \o <<"'", ":", " ">>
                                 \o Repr(x.v[i].v[1])])
                 \o <<"}">>

\* str(x), as an f-string formats x.
Str(x) == IF x.t = "str" THEN x.s ELSE Repr(x)

\* Whether sep.join(x) raises TypeError: x is not iterable, or an element of
\* it is not a str.
JoinRaises(x) ==
  CASE x.t \in {"None", "int"} -> TRUE
    [] x.t = "list" -> \E i \in 1..Len(x.v) : x.v[i].t # "str"
    [] OTHER -> FALSE

\* sep.join(x) where it does not raise: over the elements of a list, the
\* keys of a dict, the characters of a str.
Join(sep, x) ==
  CASE x.t = "list" -> JoinTexts(sep, [i \in 1..Len(x.v) |-> x.v[i].s])
    [] x.t = "dict" -> JoinTexts(sep, Keys(x))
    [] OTHER -> JoinTexts(sep, [i \in 1..Len(x.s) |-> <<x.s[i]>>])

\* ------------------------------------------------ generate_playlist_data
playlist_name == <<"playlist_name">>
playlist_description == <<"playlist_description">>
songs == <<"songs">>
songname == <<"songname">>
artists == <<"artists">>

required_fields == <<playlist_name, playlist_description, songs>>

\* Whether "field in x" raises TypeError.
InRaises(x) == x.t \in {"None", "int"}

\* field in x, for a str field: a key of a dict, an element of a list, a
\* substring of a str.
In(field, x) ==
  CASE x.t = "dict" -> HasKey(x, field)
    [] x.t = "list" -> \E i \in 1..Len(x.v) : x.v[i] = PyStr(field)
    [] OTHER ->
         \E i \in 1..Len(x.s) : SubSeq(x.s, i, i + Len(field) - 1) = field

CouldNotParse == "Could not parse AI response as JSON"
MissingFields == "AI response missing required fields"
SongsNotList == "Songs field is not a list"
InvalidSong == "Invalid song format in AI response"
ErrorGenerating == "Error generating playlist"

\* The song check without the check of artists.
ValidSongLax(song) == song.t = "dict" /\ HasKey(song, songname)

\* The song check of the loop over playlist_data["songs"].
ValidSong(song) ==
  song.t = "dict" /\ HasKey(song, songname) /\ HasKey(song, artists)

\* What generate_playlist_data does with the extracted value: the value it
\* returns and the error it shows ("" for none).
Validated(data) ==
  IF ~Truthy(data) THEN [ret |-> None, error |-> CouldNotParse]
  ELSE IF InRaises(data) THEN [ret |-> None, error |-> ErrorGenerating]
  ELSE IF ~\A f \in 1..Len(required_fields) : In(required_fields[f], data)
  THEN [ret |-> None, error |-> MissingFields]
  ELSE IF data.t # "dict" THEN [ret |-> None, error |-> ErrorGenerating]
  ELSE IF GetItem(data, songs).t # "list"
  THEN [ret |-> None, error |-> SongsNotList]
  ELSE IF \E i \in 1..Len(GetItem(data, songs).v) :
            ~ValidSong(GetItem(data, songs).v[i])
  THEN [ret |-> None, error |-> InvalidSong]
  ELSE [ret |-> data, error |-> ""]

\* ------------------------------------------------ the replies of the backend
Quote == "\""

RECURSIVE Dumps(_)
\* The JSON text of a value.
Dumps(x) ==
  CASE x.t = "None" -> <<"null">>
    [] x.t = "int" -> x.s
    [] x.t = "str" -> <<Quote>> \o x.s \o <<Quote>>
    [] x.t = "list" ->
         <<"[">> \o JoinTexts(<<",", " ">>, [i \in 1..Len(x.v) |-> Dumps(x.v[i])])
                 \o <<"]">>
    [] OTHER ->
         <<"{">> \o JoinTexts(<<",", " ">>,
                      [i \in 1..Len(x.v) |->
                         <<Quote>> \o x.v[i].s \o <<Quote, ":", " ">>
                                   \o Dumps(x.v[i].v[1])])
                 \o <<"}">>

\* Every sequence of at most n elements of S.
SeqsUpTo(S, n) == UNION {[1..k -> S] : k \in 0..n}

\* Every text of at most MaxLen symbols over these symbols.
ShortAlphabet == {"{", "}", "[", "]", Quote, "0", " ", "Sure!"}
ShortTexts == SeqsUpTo(ShortAlphabet, MaxLen)

Song(name, by) == PyDict(<<Item(songname, name), Item(artists, by)>>)
SongA == Song(PyStr(<<"Song A">>), PyList(<<PyStr(<<"Artist A">>)>>))
SongB ==
  Song(PyStr(<<"Song B">>),
       PyList(<<PyStr(<<"Artist B">>), PyStr(<<"Artist C">>)>>))
\* A song whose artists value is not a list of names.
SongNoList == Song(PyStr(<<"Song C">>), PyInt(<<"0">>))
SongValues ==
  { SongA, SongB, SongNoList,
    PyDict(<<Item(songname, PyStr(<<"Song A">>))>>),
    PyDict(<<Item(artists, PyList(<<PyStr(<<"Artist A">>)>>))>>),
    PyInt(<<"0">>) }
SongLists == SeqsUpTo(SongValues, MaxSongs)

Plan(name, description, list) ==
  PyDict(<<Item(playlist_name, name), Item(playlist_description, description),
           Item(songs, list)>>)
Mix == PyStr(<<"Mix">>)
Chill == PyStr(<<"Chill">>)

\* The replies that are the JSON text of one value: plans with every song
\* list, plans with every name and description, objects that lack a key or
\* whose songs is no list, and values that are no object.
PlanValues ==
  {Plan(Mix, Chill, PyList(l)) : l \in SongLists}
    \cup {Plan(n, d, PyList(<<SongA>>)) :
            n \in {Mix, PyInt(<<"0">>)}, d \in {Chill, PyStr(<<>>), None}}
OtherValues ==
  { PyDict(<<Item(playlist_description, Chill), Item(songs, PyList(<<SongA>>))>>),
    PyDict(<<Item(playlist_name, Mix), Item(songs, PyList(<<SongA>>))>>),
    PyDict(<<Item(playlist_name, Mix), Item(playlist_description, Chill)>>),
    Plan(Mix, Chill, SongA), Plan(Mix, Chill, PyInt(<<"0">>)),
    PyDict(<<>>), PyList(<<>>), None, PyInt(<<"0">>), PyInt(<<"7">>),
    PyStr(<<>>), PyStr(<<"Mix">>),
    PyStr(<<"playlist_name", "playlist_description", "songs">>),
    PyList(<<PyStr(playlist_name), PyStr(playlist_description), PyStr(songs)>>),
    PyList(<<Plan(Mix, Chill, PyList(<<SongA>>))>>) }

\* Text with no brace in it, put before and after the JSON text of a value.
ProsePieces == {<<>>, <<"Sure!">>, <<" ">>, <<"[">>, <<"]">>, <<Quote>>}
WrappedValues ==
  { Plan(Mix, Chill, PyList(<<SongA>>)), PyDict(<<>>),
    PyDict(<<Item(playlist_name, Mix)>>) }

Replies ==
  ShortTexts
    \cup {Dumps(x) : x \in PlanValues \cup OtherValues}
    \cup {before \o Dumps(x) \o after :
            before \in ProsePieces, after \in ProsePieces, x \in WrappedValues}

\* ------------------------------------------------ the state
VARIABLES
  pc,             \* the statement main has reached
  text,           \* response.text, the reply of the backend
  parsed,         \* generate_playlist_data's playlist_data (line 122)
  playlist_data,  \* main's playlist_data, the plan given to the resolver
  backend_calls,  \* the calls of model.generate_content
  messages,       \* what the page shows, in order
  calls,          \* the calls of the spotify client, in order
  song_uris,      \* create_spotify_playlist's song_uris
  not_found,      \* create_spotify_playlist's not_found
  i               \* the songs the search loop has been through

vars ==
  <<pc, text, parsed, playlist_data, backend_calls, messages, calls,
    song_uris, not_found, i>>

\* One thing the page shows: st.write, st.error, st.success, st.markdown,
\* st.warning.  n is the count a success names, body the list a warning
\* gives.
Message(kind, what, n, body) ==
  [kind |-> kind, what |-> what, n |-> n, body |-> body]
Error(what) == Message("error", what, 0, <<>>)

ErrorCreating == "Error creating playlist"
NothingFound == "No songs could be found on Spotify"

\* One call of the spotify client: ret is what it returned, Raise where it
\* raised.
Call(op, args, ret) == [op |-> op, args |-> args, ret |-> ret]
Raise == [t |-> "raise", s |-> <<>>, v |-> <<>>]
False == [t |-> "bool", s |-> <<"False">>, v |-> <<>>]

user_id == PyStr(<<"user">>)
playlist_id == PyStr(<<"playlist">>)
TrackUris == {<<"spotify:track:1">>, <<"spotify:track:2">>}

Init ==
  /\ pc = "generate"
  /\ text = <<>>
  /\ parsed = None
  /\ playlist_data = None
  /\ backend_calls = 0
  /\ messages = <<>>
  /\ calls = <<>>
  /\ song_uris = <<>>
  /\ not_found = <<>>
  /\ i = 0

\* ------------------------------------------------ generate_playlist_data
\* model.generate_content(prompt_template) and the echo of the reply: the
\* call raises, or returns a reply.
GenerateContent ==
  /\ pc = "generate"
  /\ backend_calls' = backend_calls + 1
  /\ \/ /\ messages' = Append(messages, Error(ErrorGenerating))
        /\ pc' = "main"
        /\ UNCHANGED text
     \/ \E reply \in Replies :
          /\ text' = reply
          /\ messages' = Append(messages, Message("write", "Raw AI response:", 0, <<>>))
          /\ pc' = "extract"
  /\ UNCHANGED <<parsed, playlist_data, calls, song_uris, not_found, i>>

\* playlist_data = extract_json_from_text(response.text)
Extract ==
  /\ pc = "extract"
  /\ parsed' = extract_json_from_text(text)
  /\ pc' = "validate"
  /\ UNCHANGED <<text, playlist_data, backend_calls, messages, calls,
                 song_uris, not_found, i>>

\* The checks of the extracted value, and the return to main.
Validate ==
  /\ pc = "validate"
  /\ playlist_data' = Validated(parsed).ret
  /\ messages' = IF Validated(parsed).error = "" THEN messages
                 ELSE Append(messages, Error(Validated(parsed).error))
  /\ pc' = "main"
  /\ UNCHANGED <<text, parsed, backend_calls, calls, song_uris, not_found, i>>

\* ------------------------------------------------ main
\* main without the check of playlist_data.
MainAlways ==
  /\ pc = "main"
  /\ pc' = "me"
  /\ UNCHANGED <<text, parsed, playlist_data, backend_calls, messages, calls,
                 song_uris, not_found, i>>

\* if playlist_data: create_spotify_playlist(...)
Main ==
  /\ pc = "main"
  /\ pc' = IF Truthy(playlist_data) THEN "me" ELSE "done"
  /\ UNCHANGED <<text, parsed, playlist_data, backend_calls, messages, calls,
                 song_uris, not_found, i>>

\* ------------------------------------------------ create_spotify_playlist
AIPrefix == <<"AI - ">>
Fallback == PyStr(<<"AI-generated playlist">>)

\* d.get(key, default)
DictGet(d, key, default) == IF HasKey(d, key) THEN GetItem(d, key) ELSE default

\* "AI - " + playlist_data["playlist_name"] raises TypeError unless the name
\* is a str.
NameRaises(data) == GetItem(data, playlist_name).t # "str"
PlaylistName(data) == PyStr(AIPrefix \o GetItem(data, playlist_name).s)
\* The description with "or" in place of get's default.
PlaylistDescriptionOr(data) ==
  IF HasKey(data, playlist_description) /\ Truthy(GetItem(data, playlist_description))
  THEN GetItem(data, playlist_description)
  ELSE Fallback
PlaylistDescription(data) == DictGet(data, playlist_description, Fallback)

\* f"{song['songname']} {' '.join(song['artists'])}"
search_query(song) ==
  Str(GetItem(song, songname)) \o <<" ">> \o Join(<<" ">>, GetItem(song, artists))

\* f"{song['songname']} by {', '.join(song['artists'])}"
NotFoundEntry(song) ==
  Str(GetItem(song, songname)) \o <<" by ">>
    \o Join(<<",", " ">>, GetItem(song, artists))

\* What spotify_client.search returns: results["tracks"]["items"], empty or
\* the one best match.
SearchReturns == {PyList(<<>>)} \cup {PyList(<<PyStr(u)>>) : u \in TrackUris}

\* The handler without the end of the function.
ExceptAndGoOn ==
  /\ messages' = Append(messages, Error(ErrorCreating))
  /\ pc' = pc

\* except Exception as e: st.error(...), and the function ends.
Except ==
  /\ messages' = Append(messages, Error(ErrorCreating))
  /\ pc' = "done"

\* user_id = spotify_client.me()["id"]
Me ==
  /\ pc = "me"
  /\ \/ /\ calls' = Append(calls, Call("me", <<>>, Raise))
        /\ Except
     \/ /\ calls' = Append(calls, Call("me", <<>>, user_id))
        /\ pc' = "create"
        /\ UNCHANGED messages
  /\ UNCHANGED <<text, parsed, playlist_data, backend_calls, song_uris,
                 not_found, i>>

CreateArgs(data) ==
  <<user_id, PlaylistName(data), False, PlaylistDescription(data)>>

\* The name, the description and spotify_client.user_playlist_create(...).
CreatePlaylist ==
  /\ pc = "create"
  /\ IF NameRaises(playlist_data)
     THEN Except /\ UNCHANGED calls
     ELSE \/ /\ calls' = Append(calls, Call("user_playlist_create",
                                            CreateArgs(playlist_data), Raise))
             /\ Except
          \/ /\ calls' = Append(calls, Call("user_playlist_create",
                                            CreateArgs(playlist_data), playlist_id))
             /\ pc' = "search"
             /\ UNCHANGED messages
  /\ UNCHANGED <<text, parsed, playlist_data, backend_calls, song_uris,
                 not_found, i>>

Songs == GetItem(playlist_data, songs).v

SearchArgs(song) == <<PyStr(search_query(song)), PyInt(<<"1">>), PyStr(<<"track">>)>>

\* insert(0, ...) in place of append.
FoundFirst(uris, items) == <<items.v[1]>> \o uris

\* song_uris.append(results["tracks"]["items"][0]["uri"])
Found(uris, items) == Append(uris, items.v[1])

\* not_found.append(...)
Missed(entries, song) == Append(entries, NotFoundEntry(song))

\* One turn of the loop over playlist_data["songs"].
Search ==
  /\ pc = "search"
  /\ i < Len(Songs)
  /\ IF JoinRaises(GetItem(Songs[i + 1], artists))
     THEN Except /\ UNCHANGED <<calls, song_uris, not_found, i>>
     ELSE \/ /\ calls' = Append(calls, Call("search", SearchArgs(Songs[i + 1]), Raise))
             /\ Except
             /\ UNCHANGED <<song_uris, not_found, i>>
          \/ \E results \in SearchReturns :
               /\ calls' = Append(calls, Call("search", SearchArgs(Songs[i + 1]), results))
               /\ IF Truthy(results)
                  THEN /\ song_uris' = Found(song_uris, results)
                       /\ UNCHANGED not_found
                  ELSE /\ not_found' = Missed(not_found, Songs[i + 1])
                       /\ UNCHANGED song_uris
               /\ i' = i + 1
               /\ UNCHANGED <<pc, messages>>
  /\ UNCHANGED <<text, parsed, playlist_data, backend_calls>>

AddArgs(uris) == <<playlist_id, PyList(uris)>>

\* The report without the warning.
ReportedWithoutWarning(uris, entries) ==
  << Message("success", "Created playlist with n songs!", Len(uris), <<>>),
     Message("markdown", "Open playlist on Spotify", 0, <<>>) >>

\* What the page shows after playlist_add_items returned.
Reported(uris, entries) ==
  << Message("success", "Created playlist with n songs!", Len(uris), <<>>),
     Message("markdown", "Open playlist on Spotify", 0, <<>>) >>
    \o (IF Truthy(PyList(entries))
        THEN << Message("warning", "Some songs couldn't be found:", 0,
                        <<"\n- ">> \o JoinTexts(<<"\n- ">>, entries)) >>
        ELSE <<>>)

\* "if song_uris:" taken always.
AnyFoundAlways(uris) == TRUE

\* if song_uris:
AnyFound(uris) == Truthy(PyList(uris))

\* if song_uris: playlist_add_items and the report; else the error.
AddItems ==
  /\ pc = "search"
  /\ i = Len(Songs)
  /\ IF AnyFound(song_uris)
     THEN \/ /\ calls' = Append(calls, Call("playlist_add_items", AddArgs(song_uris), Raise))
             /\ Except
          \/ /\ calls' = Append(calls, Call("playlist_add_items", AddArgs(song_uris), None))
             /\ messages' = messages \o Reported(song_uris, not_found)
             /\ pc' = "done"
     ELSE /\ messages' = Append(messages, Error(NothingFound))
          /\ pc' = "done"
          /\ UNCHANGED calls
  /\ UNCHANGED <<text, parsed, playlist_data, backend_calls, song_uris,
                 not_found, i>>

Next ==
  \/ GenerateContent
  \/ Extract
  \/ Validate
  \/ Main
  \/ Me
  \/ CreatePlaylist
  \/ Search
  \/ AddItems

Spec == Init /\ [][Next]_vars

\* ------------------------------------------------ what the claims speak of
IsSearch(c) == c.op = "search"
IsCreate(c) == c.op = "user_playlist_create"
IsAdd(c) == c.op = "playlist_add_items"
IsHit(c) == c.ret \in SearchReturns /\ c.ret.v # <<>>
IsMiss(c) == c.ret = PyList(<<>>)

\* The searches of the run, in the order they were issued.
Searches == SelectSeq(calls, IsSearch)
Creates == SelectSeq(calls, IsCreate)
Adds == SelectSeq(calls, IsAdd)

\* The identifiers the searches matched, in the order of the searches.
MatchedIds ==
  LET hits == SelectSeq(Searches, IsHit) IN [k \in 1..Len(hits) |-> hits[k].ret.v[1]]

\* The songs (by their place in the plan) whose search returned no match.
UnmatchedPlaces ==
  LET NoMatchAt(k) == IsMiss(Searches[k])
  IN SelectSeq([k \in 1..Len(Searches) |-> k], NoMatchAt)

\* The "title by artist1, artist2" entries of those songs, in plan order.
UnmatchedEntries ==
  [k \in 1..Len(UnmatchedPlaces) |->
     Str(GetItem(Songs[UnmatchedPlaces[k]], songname)) \o <<" by ">>
       \o Join(<<",", " ">>, GetItem(Songs[UnmatchedPlaces[k]], artists))]

SomeCallRaised == \E k \in 1..Len(calls) : calls[k].ret = Raise
Shown(kind) == {k \in 1..Len(messages) : messages[k].kind = kind}
ShownError(what) ==
  \E k \in 1..Len(messages) : messages[k].kind = "error" /\ messages[k].what = what

\* generate_playlist_data has returned to main.
Returned == pc \in {"main", "me", "create", "search", "done"}
\* create_spotify_playlist was called.
Resolving == pc \in {"me", "create", "search"} \/ calls # <<>>

\* The shape a plan must have: a mapping with the three keys whose songs is
\* a sequence of mappings that each have songname and artists.
WellShaped(x) ==
  /\ x.t = "dict"
  /\ \A key \in {playlist_name, playlist_description, songs} :
       \E k \in 1..Len(x.v) : x.v[k].s = key
  /\ \A k \in 1..Len(x.v) :
       x.v[k].s = songs =>
         /\ x.v[k].v[1].t = "list"
         /\ \A m \in 1..Len(x.v[k].v[1].v) :
              /\ x.v[k].v[1].v[m].t = "dict"
              /\ \A key \in {songname, artists} :
                   \E n \in 1..Len(x.v[k].v[1].v[m].v) :
                     x.v[k].v[1].v[m].v[n].s = key

\* C1: in a finished run of create_spotify_playlist on a plan of N songs in
\* which no service call raised and all N searches returned, M of them with
\* a match: the k-th search is the search for the k-th song, song_uris holds
\* the M matched identifiers in plan order, not_found holds the N-M entries
\* of the other songs in plan order, and if M > 0 playlist_add_items was
\* called exactly once, with exactly those M identifiers in that order.
C1_MatchedAndUnmatched ==
  (pc = "done" /\ Resolving /\ ~SomeCallRaised /\ Len(Searches) = Len(Songs))
  => /\ \A k \in 1..Len(Songs) : Searches[k].args = SearchArgs(Songs[k])
     /\ Len(song_uris) = Len(MatchedIds)
     /\ Len(not_found) = Len(Songs) - Len(MatchedIds)
     /\ song_uris = MatchedIds
     /\ not_found = UnmatchedEntries
     /\ MatchedIds # <<>> =>
          /\ Len(Adds) = 1
          /\ Adds[1].args = <<playlist_id, PyList(MatchedIds)>>

C1_Witness ==
  /\ pc = "done" /\ Resolving /\ ~SomeCallRaised
  /\ Len(Songs) >= 2 /\ Len(Searches) = Len(Songs)
  /\ Len(song_uris) >= 1 /\ Len(not_found) >= 1
  /\ Len(Adds) = 1

\* C2: a search that raises is recorded in not_found for its song and does
\* not abort the batch: in the finished run every song of the plan was
\* searched, the not_found list has an entry for each search that raised,
\* and the tracks the other searches matched were attached.
C2_SearchFailureDoesNotAbort ==
  (pc = "done" /\ \E k \in 1..Len(calls) : IsSearch(calls[k]) /\ calls[k].ret = Raise)
  => /\ Len(Searches) = Len(Songs)
     /\ Len(not_found) = Len(Songs) - Len(MatchedIds)
     /\ MatchedIds # <<>> => Len(Adds) = 1

\* C3: the service calls are me, user_playlist_create, the searches in plan
\* order, playlist_add_items, in this order and no other call; a call that
\* raised is the last call of the run, and the run then ended with exactly
\* one error message and no success message.
C3_OrderAndAbort ==
  /\ \A k \in 1..Len(calls) :
       /\ k = 1 => calls[k].op = "me"
       /\ k = 2 => calls[k].op = "user_playlist_create"
       /\ (k > 2 /\ k <= Len(Songs) + 2) =>
            /\ calls[k].op = "search"
            /\ calls[k].args = SearchArgs(Songs[k - 2])
       /\ k = Len(Songs) + 3 => calls[k].op = "playlist_add_items"
       /\ k <= Len(Songs) + 3
       /\ calls[k].ret = Raise => k = Len(calls)
  /\ SomeCallRaised =>
       /\ pc = "done"
       /\ Shown("success") = {}
       /\ Cardinality(Shown("error")) = 1

C3_Witness ==
  /\ Len(calls) >= 4
  /\ calls[Len(calls)].ret = Raise
  /\ calls[Len(calls)].op = "search"
  /\ song_uris # <<>>

\* Extraction fails on a reply: neither the whole reply nor the part of it
\* from its first "{" to its last "}" is JSON.
ExtractionFails(t) ==
  /\ ~json_loads(t).ok
  /\ \A a \in 1..Len(t), b \in 1..Len(t) :
       ( /\ t[a] = "{" /\ \A m \in 1..(a - 1) : t[m] # "{"
         /\ t[b] = "}" /\ \A m \in (b + 1)..Len(t) : t[m] # "}" )
       => ~json_loads(SubSeq(t, a, b)).ok

\* The backend call raised: there was no reply to echo.
BackendRaised == Returned /\ Shown("write") = {}

\* C4: no call of the spotify client is made unless generate_playlist_data
\* returned a plan; it returns after exactly one backend call, and whenever
\* the backend call raised, extraction failed or validation failed it
\* returned None with one error message, and main made no service call.
C4_NoPlanNoServiceCall ==
  /\ Resolving => playlist_data # None
  /\ Returned => backend_calls = 1
  /\ (Returned /\ (BackendRaised \/ ExtractionFails(text) \/ ~WellShaped(parsed)))
     => /\ playlist_data = None
        /\ Cardinality(Shown("error")) = 1
        /\ calls = <<>>
        /\ pc \in {"main", "done"}

C4_Witness ==
  /\ pc = "done" /\ calls = <<>>
  /\ ~BackendRaised /\ ~ExtractionFails(text)
  /\ parsed.t = "dict" /\ parsed.v # <<>> /\ ~WellShaped(parsed)

\* C5: every plan given to create_spotify_playlist is a mapping with the
\* keys playlist_name, playlist_description and songs whose songs is a
\* sequence of mappings that each have songname and artists; for every
\* extracted value that is not, generate_playlist_data returns None.
C5_PlanIsWellShaped ==
  /\ Resolving => WellShaped(playlist_data)
  /\ (Returned /\ ~WellShaped(parsed)) => playlist_data = None

C5_Witness ==
  /\ pc = "main" /\ playlist_data = None
  /\ parsed.t = "dict"
  /\ \A f \in 1..Len(required_fields) : HasKey(parsed, required_fields[f])
  /\ GetItem(parsed, songs).t = "list"
  /\ Len(GetItem(parsed, songs).v) >= 2
  /\ ~WellShaped(parsed)

ValidationErrors == {MissingFields, SongsNotList, InvalidSong}

\* C6: whenever extraction succeeds on the reply and the extracted value
\* lacks the required shape, the error shown is a validation failure and not
\* the extraction failure; the extraction failure is shown only when neither
\* the whole reply nor its first-"{"-to-last-"}" part is JSON.
C6_ValidationDistinctFromExtraction ==
  (pc = "main" /\ ~BackendRaised)
  => /\ (~ExtractionFails(text) /\ ~WellShaped(parsed))
        => /\ \E k \in Shown("error") : messages[k].what \in ValidationErrors
           /\ ~ShownError(CouldNotParse)
     /\ ShownError(CouldNotParse) => ExtractionFails(text)

\* C7: in a finished run in which the playlist was created and every song
\* was searched without a match (also a plan of no songs),
\* playlist_add_items is never called, the outcome shown is the "nothing
\* found" error and neither a success nor the exception error,
\* user_playlist_create was called exactly once and no other kind of call
\* (no delete) was made.
C7_NothingFound ==
  ( /\ pc = "done"
    /\ \E k \in 1..Len(calls) : IsCreate(calls[k]) /\ calls[k].ret # Raise
    /\ Len(Searches) = Len(Songs)
    /\ \A k \in 1..Len(Searches) : IsMiss(Searches[k]) )
  => /\ Adds = <<>>
     /\ messages[Len(messages)] = Error(NothingFound)
     /\ Shown("success") = {}
     /\ ~ShownError(ErrorCreating)
     /\ Cardinality(Shown("error")) = 1
     /\ Len(Creates) = 1
     /\ \A k \in 1..Len(calls) : calls[k].op \in {"me", "user_playlist_create", "search"}

C7_Witness ==
  /\ pc = "done"
  /\ Len(Creates) = 1
  /\ Len(Songs) >= 2
  /\ Len(Searches) = Len(Songs)
  /\ \A k \in 1..Len(Searches) : IsMiss(Searches[k])

ExtractionPolicy ==
  (Returned \/ pc = "validate") /\ ~BackendRaised
  => /\ json_loads(text).ok => parsed = json_loads(text).val
     /\ ~json_loads(text).ok =>
          \A a \in 1..Len(text), b \in 1..Len(text) :
            ( /\ text[a] = "{" /\ \A m \in 1..(a - 1) : text[m] # "{"
              /\ text[b] = "}" /\ \A m \in (b + 1)..Len(text) : text[m] # "}" )
            => parsed = IF json_loads(SubSeq(text, a, b)).ok
                        THEN json_loads(SubSeq(text, a, b)).val
                        ELSE None
     /\ ExtractionFails(text) => parsed = None /\ (Returned => playlist_data = None)

\* The reply is text without braces around one JSON object, which is the
\* part of the reply from a to b.
ProseAroundObject(a, b) ==
  /\ a <= b
  /\ \A m \in (1..(a - 1)) \cup ((b + 1)..Len(text)) : text[m] \notin {"{", "}"}
  /\ json_loads(SubSeq(text, a, b)).ok
  /\ json_loads(SubSeq(text, a, b)).val.t = "dict"

\* C9 as stated: the extraction policy, and every reply made of brace-free
\* text around one JSON object yields the value of that object.
C9_Original ==
  /\ ExtractionPolicy
  /\ (pc = "validate" =>
        \A a \in 1..Len(text), b \in 1..Len(text) :
          ProseAroundObject(a, b) => parsed = json_loads(SubSeq(text, a, b)).val)

\* C9 as amended: the extraction policy, and every reply made of brace-free
\* text around one JSON object that is not JSON as a whole yields the value
\* of that object.
C9_ExtractionPolicy ==
  /\ ExtractionPolicy
  /\ (pc = "validate" =>
        \A a \in 1..Len(text), b \in 1..Len(text) :
          (ProseAroundObject(a, b) /\ ~json_loads(text).ok)
          => parsed = json_loads(SubSeq(text, a, b)).val)

C9_Witness ==
  /\ pc = "validate"
  /\ ~json_loads(text).ok
  /\ \E a \in 2..Len(text), b \in 1..(Len(text) - 1) : ProseAroundObject(a, b)
  /\ WellShaped(parsed)

\* C10 as stated: the playlist is created private, named "AI - " followed by
\* the plan's name, with the plan's description, or the fallback whenever
\* that description is empty or missing.
C10_Original ==
  \A k \in 1..Len(calls) :
    IsCreate(calls[k]) =>
      /\ calls[k].args[2] = PyStr(<<"AI - ">> \o GetItem(playlist_data, playlist_name).s)
      /\ calls[k].args[3] = False
      /\ calls[k].args[4] =
           IF \/ ~HasKey(playlist_data, playlist_description)
              \/ GetItem(playlist_data, playlist_description) = PyStr(<<>>)
           THEN PyStr(<<"AI-generated playlist">>)
           ELSE GetItem(playlist_data, playlist_description)

\* C10 as amended: the playlist is created private, named "AI - " followed
\* by the plan's name, with the plan's description as it is, also when it is
\* empty; the plan always has the key, so the fallback is never used.
C10_NameAndDescription ==
  \A k \in 1..Len(calls) :
    IsCreate(calls[k]) =>
      /\ calls[k].args[2] = PyStr(<<"AI - ">> \o GetItem(playlist_data, playlist_name).s)
      /\ calls[k].args[3] = False
      /\ HasKey(playlist_data, playlist_description)
      /\ calls[k].args[4] = GetItem(playlist_data, playlist_description)

C10_Witness ==
  \E k \in 1..Len(calls) :
    /\ IsCreate(calls[k])
    /\ calls[k].ret # Raise
    /\ GetItem(playlist_data, playlist_description) = PyStr(<<>>)
    /\ calls[k].args[4] = PyStr(<<>>)

====
